---- MODULE Spec2Model ----
(***************************************************************************)
(* Minecraft server monitor plugin (src/main.py, class MyPlugin).          *)
(*                                                                         *)
(* The model covers the cached monitor state (last_player_count,           *)
(* last_player_list, last_status), the normalisation of an API response    *)
(* into a snapshot (_fetch_server_data), the extraction of player names    *)
(* (_extract_player_names), the change detection (check_server_changes),   *)
(* the polling task (direct_hello_task) with its await points, and the     *)
(* commands that start, stop and reset the monitor.                        *)
(*                                                                         *)
(* Python values are represented as follows.                               *)
(*   None / a value v      : <<>> / <<v>>  (an optional)                   *)
(*   a string player name  : a TLA+ string                                 *)
(*   a JSON string "A, B"  : the sequence of its comma separated parts     *)
(*   a JSON object (dict)  : a function from its possible keys to values,  *)
(*                           Absent for a key that is missing or falsy     *)
(* The fields name, version and motd of a snapshot are only copied into    *)
(* the status text and are left out.                                       *)
(***************************************************************************)
EXTENDS Integers, Sequences, FiniteSets, TLC

\* ------------------------------------------------------------------ bounds
\* Largest players.online value an API response carries.
MaxOnline == 2
\* Largest number of entries of a player list in an API response.
MaxSample == 2

\* The longest player list a rendered snapshot holds.
MaxNames == 12

\* The number of names _format_server_info shows (main.py 265).
MaxShown == 10

\* ------------------------------------------------------------- Python None
None == <<>>
Some(v) == <<v>>
IsNone(o) == o = <<>>
Val(o) == o[1]

Abs(n) == IF n < 0 THEN -n ELSE n

RECURSIVE SeqToSet(_)
SeqToSet(s) == IF s = <<>> THEN {} ELSE {Head(s)} \cup SeqToSet(Tail(s))

\* -------------------------------------------------- player sample values
Names == {"A", "B", "C"}

\* A key of a player record that is missing, None or "".
Absent == ""

\* The keys _extract_player_names looks a name up under, in its order.
NameKeys == <<"name", "username", "name_clean", "playername", "xuid">>

NameKeySet == {NameKeys[i] : i \in 1..Len(NameKeys)}

\* A player record holding v under key k only.
DictOf(k, v) == [a \in NameKeySet |-> IF a = k THEN v ELSE Absent]

NoDict == [a \in NameKeySet |-> Absent]

\* An entry of a player list: a dict (isdict, d) or anything else (s).
PlainItem(s) == [isdict |-> FALSE, s |-> s, d |-> NoDict]
DictItem(d) == [isdict |-> TRUE, s |-> Absent, d |-> d]

\* str.strip(), on the parts of a comma separated string and on a group id.
strip(p) ==
    CASE p = " B" -> "B"
      [] p = " 123 " -> "123"
      [] p = "C " -> "C"
      [] p = " " -> ""
      [] OTHER -> p

\* A value of players.sample (or one of its aliases): None, a string, a list
\* or something else (a number, an object).
NoSample == [t |-> "none", parts |-> <<>>, items |-> <<>>]
StrSample(parts) == [t |-> "str", parts |-> parts, items |-> <<>>]
ListSample(items) == [t |-> "list", parts |-> <<>>, items |-> items]
OtherSample == [t |-> "other", parts |-> <<>>, items |-> <<>>]

\* Python truthiness of a sample value: None, "" and [] are falsy.
Truthy(ps) ==
    CASE ps.t = "none" -> FALSE
      [] ps.t = "str" -> ps.parts # <<"">>
      [] ps.t = "list" -> ps.items # <<>>
      [] OTHER -> TRUE

\* p.get("name") or p.get("username") or ... : the first truthy value.
RECURSIVE FirstName(_, _)
FirstName(d, i) ==
    IF i > Len(NameKeys) THEN Absent
    ELSE IF d[NameKeys[i]] # Absent THEN d[NameKeys[i]]
    ELSE FirstName(d, i + 1)

\* The loop over a list sample (main.py 97-107).
RECURSIVE NamesOfItems(_)
NamesOfItems(items) ==
    IF items = <<>> THEN <<>>
    ELSE LET p == Head(items)
             rest == NamesOfItems(Tail(items))
         IN IF p.isdict
            THEN IF FirstName(p.d, 1) # Absent
                 THEN <<FirstName(p.d, 1)>> \o rest
                 ELSE rest
            ELSE <<p.s>> \o rest

\* [name.strip() for name in s.split(",") if name.strip()]
RECURSIVE NamesOfParts(_)
NamesOfParts(parts) ==
    IF parts = <<>> THEN <<>>
    ELSE IF strip(Head(parts)) # ""
         THEN <<strip(Head(parts))>> \o NamesOfParts(Tail(parts))
         ELSE NamesOfParts(Tail(parts))

extract_player_names(player_sample) ==
    IF ~Truthy(player_sample) THEN <<>>
    ELSE IF player_sample.t = "str" THEN NamesOfParts(player_sample.parts)
    ELSE IF player_sample.t = "list" THEN NamesOfItems(player_sample.items)
    ELSE <<>>

\* --------------------------------------------------------- API responses
\* A value of players.online / players.max in the JSON document: a number,
\* a numeric string, null, something int() rejects, or a missing key.
IntRaw(n) == [t |-> "int", v |-> n]
NumStrRaw(n) == [t |-> "numstr", v |-> n]
NullRaw == [t |-> "null", v |-> 0]
BadRaw == [t |-> "bad", v |-> 0]
MissingRaw == [t |-> "missing", v |-> 0]

\* A key that the players object does not hold.
MissingKey == [t |-> "missing", parts |-> <<>>, items |-> <<>>]

\* int(raw) if raw else 0, with ValueError and TypeError giving 0; a missing
\* key reads as the default 0 (main.py 152-164).
to_int(raw) ==
    CASE raw.t = "int" -> raw.v
      [] raw.t = "numstr" -> raw.v
      [] OTHER -> 0

\* The field names tried for the player list, in this order (main.py 170).
possible_player_fields ==
    <<"sample", "list", "players", "player_sample", "online_players">>

\* players_info[key] for the keys other than online and max, which the model
\* keeps as a sequence of <<key, value>> pairs in document order.
RECURSIVE Lookup(_, _)
Lookup(others, key) ==
    IF others = <<>> THEN MissingKey
    ELSE IF Head(others)[1] = key THEN Head(others)[2]
    ELSE Lookup(Tail(others), key)

\* The first of possible_player_fields that is present and truthy
\* (main.py 171-175); None when there is none.
RECURSIVE FirstField(_, _)
FirstField(others, i) ==
    IF i > Len(possible_player_fields) THEN None
    ELSE IF Truthy(Lookup(others, possible_player_fields[i]))
         THEN Some(Lookup(others, possible_player_fields[i]))
         ELSE FirstField(others, i + 1)

\* The first value, in document order, that is a list or a string
\* (main.py 182-186); None when there is none.
RECURSIVE FirstListOrStr(_)
FirstListOrStr(others) ==
    IF others = <<>> THEN None
    ELSE IF Head(others)[2].t \in {"list", "str"} THEN Some(Head(others)[2])
    ELSE FirstListOrStr(Tail(others))

\* len(players_info)
InfoLen(info) ==
    (IF info.online.t = "missing" THEN 0 ELSE 1)
    + (IF info.max.t = "missing" THEN 0 ELSE 1)
    + Len(info.others)

\* The player_sample chosen from a players object (main.py 166-186).
PlayerSample(info, online_players) ==
    LET found == FirstField(info.others, 1)
    IN IF ~IsNone(found) THEN found
       ELSE IF online_players > 0 /\ InfoLen(info) > 2
            THEN FirstListOrStr(info.others)
            ELSE None

\* _fetch_server_data: None on a failed request, else the snapshot built
\* from the JSON document (main.py 112-227).
fetch_server_data(resp) ==
    IF ~resp.ok THEN None
    ELSE LET info == resp.players
             online_players == IF info.isdict THEN to_int(info.online) ELSE 0
             max_players == IF info.isdict THEN to_int(info.max) ELSE 0
             player_sample ==
                 IF info.isdict THEN PlayerSample(info, online_players)
                 ELSE Some(ListSample(<<>>))
         IN Some([status |-> IF IsNone(resp.status) THEN "unknown"
                             ELSE Val(resp.status),
                  online |-> online_players,
                  max |-> max_players,
                  players |-> IF ~IsNone(player_sample) THEN Val(player_sample)
                              ELSE ListSample(<<>>)])

\* -------------------------------------------------------- change detection
\* One line of the change text built by check_server_changes, or the single
\* text it returns otherwise.  kind:
\*   "joined"       names joined the server (+n)      main.py 333
\*   "count_joined" n players joined the server       main.py 335
\*   "left"         names left the server (n)         main.py 340
\*   "count_left"   n players left the server         main.py 342
\*   "init_online"  monitoring started, players online   main.py 318
\*   "init"         monitoring started                main.py 320
\*   "nochange"     no change                         main.py 353
\*   "failed"       fetching the server data failed   main.py 301
Line(kind, names, n) == [kind |-> kind, names |-> names, n |-> n]

\* Mutation of FirstCheck: the first snapshot is compared with an empty
\* cache, so its players are reported as joined.
FirstCheck_AsComparison(d, current_player_names) ==
    LET player_diff == d.online
        new_players == SeqToSet(current_player_names)
        changes == IF player_diff > 0
                   THEN IF new_players # {}
                        THEN <<Line("joined", new_players, player_diff)>>
                        ELSE <<Line("count_joined", {}, player_diff)>>
                   ELSE <<>>
    IN [count |-> Some(d.online),
        list |-> current_player_names,
        status |-> Some(d.status),
        send |-> changes # <<>>,
        msg |-> IF changes # <<>> THEN changes
                ELSE <<Line("nochange", {}, 0)>>]

\* Mutation of FirstCheck: the count is not stored.
FirstCheck_CountNotStored(d, current_player_names) ==
    [count |-> None,
     list |-> current_player_names,
     status |-> Some(d.status),
     send |-> TRUE,
     msg |-> IF d.online > 0 THEN <<Line("init_online", {}, 0)>>
             ELSE <<Line("init", {}, 0)>>]

\* The first check (last_player_count is None): main.py 311-320.
FirstCheck(d, current_player_names) ==
    [count |-> Some(d.online),
     list |-> current_player_names,
     status |-> Some(d.status),
     send |-> TRUE,
     msg |-> IF d.online > 0 THEN <<Line("init_online", {}, 0)>>
             ELSE <<Line("init", {}, 0)>>]

\* Mutation of DetectChanges: a falling count without a name that left is
\* not reported.
DetectChanges_NoLeftCount(count, list, d, current_player_names) ==
    LET player_diff == d.online - count
        new_players == SeqToSet(current_player_names) \ SeqToSet(list)
        left_players == SeqToSet(list) \ SeqToSet(current_player_names)
    IN IF player_diff > 0
       THEN IF new_players # {}
            THEN <<Line("joined", new_players, player_diff)>>
            ELSE <<Line("count_joined", {}, player_diff)>>
       ELSE IF player_diff < 0 /\ left_players # {}
            THEN <<Line("left", left_players, player_diff)>>
            ELSE <<>>

\* The changes a later check reports (main.py 322-342).
DetectChanges(count, list, d, current_player_names) ==
    LET player_diff == d.online - count
        new_players == SeqToSet(current_player_names) \ SeqToSet(list)
        left_players == SeqToSet(list) \ SeqToSet(current_player_names)
    IN IF player_diff > 0
       THEN IF new_players # {}
            THEN <<Line("joined", new_players, player_diff)>>
            ELSE <<Line("count_joined", {}, player_diff)>>
       ELSE IF player_diff < 0
            THEN IF left_players # {}
                 THEN <<Line("left", left_players, player_diff)>>
                 ELSE <<Line("count_left", {}, Abs(player_diff))>>
            ELSE <<>>

\* Mutation of LaterCheck: the cache is updated only when a change is
\* reported.
LaterCheck_UpdateOnChange(count, list, d, current_player_names) ==
    LET changes == DetectChanges(count, list, d, current_player_names)
    IN [count |-> IF changes # <<>> THEN Some(d.online) ELSE Some(count),
        list |-> IF changes # <<>> THEN current_player_names ELSE list,
        status |-> Some(d.status),
        send |-> changes # <<>>,
        msg |-> IF changes # <<>> THEN changes
                ELSE <<Line("nochange", {}, 0)>>]

\* A later check: the changes, then the cache update (main.py 322-353).
LaterCheck(count, list, d, current_player_names) ==
    LET changes == DetectChanges(count, list, d, current_player_names)
    IN [count |-> Some(d.online),
        list |-> current_player_names,
        status |-> Some(d.status),
        send |-> changes # <<>>,
        msg |-> IF changes # <<>> THEN changes
                ELSE <<Line("nochange", {}, 0)>>]

\* check_server_changes(server_data) in the state (count, list, status):
\* the new state and the pair (should_send, message) it returns.
check_server_changes(count, list, status, server_data) ==
    IF IsNone(server_data)
    THEN [count |-> count, list |-> list, status |-> status,
          send |-> FALSE, msg |-> <<Line("failed", {}, 0)>>]
    ELSE LET current_player_names ==
                  extract_player_names(Val(server_data).players)
         IN IF IsNone(count)
            THEN FirstCheck(Val(server_data), current_player_names)
            ELSE LaterCheck(Val(count), list, Val(server_data),
                            current_player_names)

\* ------------------------------------------------------------- rendering
\* names[:k]
RECURSIVE Take(_, _)
Take(names, k) ==
    IF k = 0 \/ names = <<>> THEN <<>>
    ELSE <<Head(names)>> \o Take(Tail(names), k - 1)

\* The text _format_server_info returns, by what it tells.  kind:
\*   "failed"  the data could not be fetched            main.py 239
\*   "list"    the line of names, shown joined by ", ",
\*             then " (+more)" when more > 0            main.py 266-268
\*   "count"   players online, no list available        main.py 271
\*   "empty"   nobody online                            main.py 273
\* online and max are the counts of the line before (main.py 258).
Text(kind, online, max, shown, more) ==
    [kind |-> kind, online |-> online, max |-> max, shown |-> shown,
     more |-> more]

\* Mutation of format_server_info: every name is shown.
format_server_info_ShowsAll(server_data) ==
    IF IsNone(server_data) THEN Text("failed", 0, 0, <<>>, 0)
    ELSE LET d == Val(server_data)
             player_names == extract_player_names(d.players)
         IN IF d.online > 0
            THEN IF player_names # <<>>
                 THEN Text("list", d.online, d.max, player_names, 0)
                 ELSE Text("count", d.online, d.max, <<>>, 0)
            ELSE Text("empty", d.online, d.max, <<>>, 0)

\* _format_server_info (main.py 229-279).
format_server_info(server_data) ==
    IF IsNone(server_data) THEN Text("failed", 0, 0, <<>>, 0)
    ELSE LET d == Val(server_data)
             player_names == extract_player_names(d.players)
         IN IF d.online > 0
            THEN IF player_names # <<>>
                 THEN Text("list", d.online, d.max,
                           Take(player_names, MaxShown),
                           IF Len(player_names) > MaxShown
                           THEN Len(player_names) - MaxShown ELSE 0)
                 ELSE Text("count", d.online, d.max, <<>>, 0)
            ELSE Text("empty", d.online, d.max, <<>>, 0)

\* ---------------------------------------------------- inputs of the model
NameIndex(n) == CASE n = "A" -> 1 [] n = "B" -> 2 [] OTHER -> 3

\* The player lists the server reports: up to MaxSample distinct names in a
\* fixed order.
NameLists ==
    {ns \in UNION {[1..n -> Names] : n \in 0..MaxSample} :
        \A i, j \in DOMAIN ns : i < j => NameIndex(ns[i]) < NameIndex(ns[j])}

\* A player list as a JSON list of strings.
RECURSIVE PlainItems(_, _)
PlainItems(ns, i) ==
    IF i > Len(ns) THEN <<>>
    ELSE <<PlainItem(ns[i])>> \o PlainItems(ns, i + 1)

\* A player list as a JSON list of records, the i-th name under the i-th key.
RECURSIVE DictItems(_, _)
DictItems(ns, i) ==
    IF i > Len(ns) THEN <<>>
    ELSE <<DictItem(DictOf(NameKeys[((i - 1) % Len(NameKeys)) + 1], ns[i]))>>
         \o DictItems(ns, i + 1)

\* A player list as the parts of a string "A, B,C ".
Padded(n) == CASE n = "B" -> " B" [] n = "C" -> "C " [] OTHER -> n

RECURSIVE PaddedParts(_, _)
PaddedParts(ns, i) ==
    IF i > Len(ns) THEN <<>>
    ELSE <<Padded(ns[i])>> \o PaddedParts(ns, i + 1)

AsString(ns) ==
    IF Len(ns) = 0 THEN StrSample(<<"">>) ELSE StrSample(PaddedParts(ns, 1))

\* The JSON form a player list comes in: the lists starting with A as a
\* list of strings, with B as a list of records, with C as a string.
Encoded(ns) ==
    IF Len(ns) = 0 THEN ListSample(<<>>)
    ELSE IF ns[1] = "A" THEN ListSample(PlainItems(ns, 1))
    ELSE IF ns[1] = "B" THEN ListSample(DictItems(ns, 1))
    ELSE AsString(ns)

\* Sample values that name nobody, or name a player in an unusual way.
EdgeSamples ==
    {NoSample, OtherSample,
     ListSample(<<DictItem(NoDict)>>),
     ListSample(<<DictItem([DictOf("username", "C") EXCEPT !["playername"] = "A"])>>),
     StrSample(<<" ">>),
     StrSample(<<"">>),
     StrSample(<<"A", "">>),
     ListSample(DictItems(<<"A", "C">>, 1))}

OnlineRaws == {IntRaw(n) : n \in 0..MaxOnline}

\* Values of players.online that are no plain number.
OddRaws == {NumStrRaw(1), NullRaw, BadRaw, MissingRaw}

Info(online, max, others) ==
    [isdict |-> TRUE, online |-> online, max |-> max, others |-> others]

\* The players objects of the responses: every count with every player list
\* of at most that many names under "sample" (the sample may be cut short,
\* or withheld); the unusual sample values; the list under another field or
\* under an unknown key; two keys holding lists; no list at all, with a
\* count that may be no plain number; and a players value that is no object.
PlayersInfos ==
    UNION {{Info(IntRaw(n), IntRaw(20), <<<<"sample", Encoded(ns)>>>>) :
               ns \in {l \in NameLists : Len(l) <= n}} : n \in 0..MaxOnline}
    \cup {Info(IntRaw(MaxOnline), IntRaw(20), <<<<"sample", sv>>>>) :
            sv \in EdgeSamples}
    \cup {Info(IntRaw(MaxOnline), NumStrRaw(20),
               <<<<k, ListSample(PlainItems(<<"A", "B">>, 1))>>>>) :
            k \in {"list", "online_players", "names"}}
    \cup {Info(IntRaw(1), MissingRaw,
               <<<<"list", ListSample(PlainItems(<<"B">>, 1))>>,
                 <<"sample", ListSample(PlainItems(<<"A">>, 1))>>>>),
          Info(IntRaw(1), NullRaw,
               <<<<"sample", ListSample(<<>>)>>, <<"names", AsString(<<"C">>)>>>>),
          Info(IntRaw(1), BadRaw,
               <<<<"count", OtherSample>>, <<"names", AsString(<<"C">>)>>>>)}
    \cup {Info(o, IntRaw(20), <<>>) : o \in OnlineRaws \cup OddRaws}
    \cup {[isdict |-> FALSE, online |-> MissingRaw, max |-> MissingRaw, others |-> <<>>]}

\* The players objects of a server that is not reachable: no players, the
\* count zero, null or missing, or no players object at all.
OfflineInfos ==
    {Info(o, o, <<>>) : o \in {IntRaw(0), NullRaw, MissingRaw}}
    \cup {[isdict |-> FALSE, online |-> MissingRaw, max |-> MissingRaw, others |-> <<>>]}

\* The outcomes of one request: a JSON document of an online server, of an
\* offline server, or without a status (data.get('status', <unknown>)), or
\* a failure (missing configuration, HTTP status other than 200, invalid
\* JSON, network error, timeout), which makes _fetch_server_data return None.
FailedResponse ==
    [ok |-> FALSE, status |-> None,
     players |-> [isdict |-> FALSE, online |-> MissingRaw, max |-> MissingRaw,
                  others |-> <<>>]]

Responses ==
    {[ok |-> TRUE, status |-> Some("online"), players |-> info] :
        info \in PlayersInfos}
    \cup {[ok |-> TRUE, status |-> Some("offline"), players |-> info] :
            info \in OfflineInfos}
    \cup {[ok |-> TRUE, status |-> None,
           players |-> Info(IntRaw(0), IntRaw(0), <<>>)]}
    \cup {FailedResponse}

\* What _fetch_server_data returns for these responses.
FetchResults == {fetch_server_data(resp) : resp \in Responses}

\* The values of players.online and players.max an upstream document can
\* hold: numbers below zero too, numeric strings, null, a value int()
\* rejects, a missing key.
WideRaws ==
    {IntRaw(n) : n \in -2..MaxOnline}
    \cup {NumStrRaw(-1), NumStrRaw(1), NullRaw, BadRaw, MissingRaw}

\* The documents with these counts, without a player list and with one.
WideResponses ==
    {[ok |-> TRUE, status |-> Some(st), players |-> Info(o, m, others)] :
        o \in WideRaws, m \in WideRaws, st \in {"online", "offline"},
        others \in {<<>>, <<<<"sample", Encoded(<<"A">>)>>>>}}
    \cup {FailedResponse}

\* The players of a crowded server, in the order the server lists them.
Roster ==
    <<"A", "B", "C", "D", "E", "F", "G", "H", "I", "J", "K", "L", "M", "N",
      "O", "P">>

\* Its player lists: up to MaxNames names in a row, from the first, second
\* or third of the roster on.
BigLists ==
    {SubSeq(Roster, k, k + n - 1) : k \in 1..3, n \in 0..MaxNames}

\* The snapshots with these lists: as many players online as are listed, or
\* one more.
BigSnapshots ==
    {fetch_server_data(
         [ok |-> TRUE, status |-> Some("online"),
          players |-> Info(IntRaw(Len(ns) + extra), IntRaw(20),
                           <<<<"sample", Encoded(ns)>>>>)]) :
        ns \in BigLists, extra \in {0, 1}}
    \cup {None}

\* ------------------------------------------------------------------ state
VARIABLES
    last_player_count,  \* None, or the online count of the last snapshot
    last_player_list,   \* the player names of the last snapshot
    last_status,        \* None, or the status of the last snapshot
    task,               \* self.task: "none", "running", "cancelling", "done"
    pc,                 \* the await the polling task is suspended at
    auto,               \* _delayed_auto_start is scheduled and has not run
    orphans,            \* polling tasks that are live and no longer self.task
    terminated,         \* terminate has run
    should_send,        \* what the last check_server_changes call returned
    change_message,     \*   (the locals of direct_hello_task, main.py 413)
    delivered,          \* history: no message is waiting to be sent, or
                        \*   notify_subscribers returned True for the last one
    prev,               \* history: count and list before that call
    cur,                \* history: count, names, status of its snapshot
    same,               \* history: the call before it had an equal snapshot
    reset_pending,      \* history: reset_monitor ran and no call followed
    after_reset,        \* history: that call was the first after a reset
    op,                 \* history: the last step was a "check", a
                        \*   "fetch_failed", a "reset", a "start", a "query",
                        \*   a "set_group",
                        \*   "recovered" (the sleep after an error ended) or
                        \*   "other"
    fn_in,              \* the argument of a function applied on its own
    fn_out,             \* and its result
    target_group        \* None, or the group the notifications go to

vars ==
    <<last_player_count, last_player_list, last_status, task, pc, auto,
      orphans, terminated, should_send, change_message, delivered, prev, cur,
      same, reset_pending, after_reset, op, fn_in, fn_out,
      target_group>>

monitor == <<last_player_count, last_player_list, last_status>>
locals == <<should_send, change_message>>
history == <<prev, cur, same, reset_pending, after_reset>>
applied == <<fn_in, fn_out>>

\* What check_server_changes reads of a snapshot.
Summary(d) ==
    [online |-> d.online, names |-> extract_player_names(d.players),
     status |-> d.status]

\* str.isdigit() on the group ids of the model.
isdigit(group_id) == group_id \in {"123"}

\* The arguments of /set_group.
GroupIds == {"123", " 123 ", "12a", ""}

\* __init__ (main.py 12-54): nothing observed, no task; the delayed start is
\* scheduled when enable_auto_monitor is set and the configuration complete.
Init ==
    /\ last_player_count = None
    /\ last_player_list = <<>>
    /\ last_status = None
    /\ task = "none"
    /\ pc = "none"
    /\ target_group \in {None, Some("123")}
    /\ auto \in IF IsNone(target_group) THEN {FALSE} ELSE BOOLEAN
    /\ orphans = 0
    /\ terminated = FALSE
    /\ should_send = FALSE
    /\ change_message = <<>>
    /\ delivered = TRUE
    /\ prev = [count |-> None, list |-> <<>>]
    /\ cur = None
    /\ same = FALSE
    /\ reset_pending = FALSE
    /\ after_reset = FALSE
    /\ op = "other"
    /\ fn_in = None
    /\ fn_out = None

\* self.task and not self.task.done()
TaskLive == task \in {"running", "cancelling"}

\* The polling tasks that were created and have not finished.
LiveTasks == orphans + (IF TaskLive THEN 1 ELSE 0)

\* self.task = asyncio.create_task(self.direct_hello_task()): a task that
\* self.task named before goes on running when it was live.
CreateTask ==
    /\ orphans' = IF TaskLive THEN orphans + 1 ELSE orphans
    /\ task' = "running"
    /\ pc' = "sleep"

\* _delayed_auto_start after its 5 second sleep (main.py 56-61).  Nothing
\* holds a reference to it, so neither a command nor terminate stops it.
delayed_auto_start ==
    /\ auto
    /\ auto' = FALSE
    /\ IF ~TaskLive THEN CreateTask ELSE UNCHANGED <<task, pc, orphans>>
    /\ op' = "other"
    /\ UNCHANGED <<monitor, terminated, locals, delivered, history, applied, target_group>>

\* Mutation of start_server_monitor_task: a task is created without looking
\* at self.task.
start_server_monitor_task_NoGuard ==
    /\ ~terminated
    /\ CreateTask
    /\ op' = "start"
    /\ UNCHANGED <<monitor, auto, terminated, locals, delivered, history,
                   applied, target_group>>

\* /start_server_monitor (main.py 445-454).  Commands reach the plugin until
\* terminate, its destruction method (main.py 503-504), has run.
start_server_monitor_task ==
    /\ ~terminated
    /\ IF TaskLive THEN UNCHANGED <<task, pc, orphans>> ELSE CreateTask
    /\ op' = "start"
    /\ UNCHANGED <<monitor, auto, terminated, locals, delivered, history,
                   applied, target_group>>

\* Mutation of stop_server_monitor_task: stopping forgets the stored
\* snapshot.
stop_server_monitor_task_ClearsState ==
    /\ ~terminated
    /\ task' = IF TaskLive THEN "cancelling" ELSE task
    /\ last_player_count' = None
    /\ last_player_list' = <<>>
    /\ last_status' = None
    /\ op' = "other"
    /\ UNCHANGED <<pc, auto, orphans, terminated, locals, delivered,
                   history, applied, target_group>>

\* /stop_server_monitor (main.py 456-464): cancel() only requests the
\* cancellation; the task ends when it next runs.
stop_server_monitor_task ==
    /\ ~terminated
    /\ task' = IF TaskLive THEN "cancelling" ELSE task
    /\ op' = "other"
    /\ UNCHANGED <<monitor, pc, auto, orphans, terminated, locals, delivered,
                   history, applied, target_group>>

\* terminate (main.py 503-508): the polling task is cancelled when it is live.
terminate ==
    /\ ~terminated
    /\ terminated' = TRUE
    /\ task' = IF TaskLive THEN "cancelling" ELSE task
    /\ op' = "other"
    /\ UNCHANGED <<monitor, pc, auto, orphans, locals, delivered, history,
                   applied, target_group>>

\* Mutation of reset_monitor: the stored count is kept.
reset_monitor_KeepsCount ==
    /\ ~terminated
    /\ last_player_list' = <<>>
    /\ last_status' = None
    /\ reset_pending' = TRUE
    /\ op' = "reset"
    /\ UNCHANGED <<last_player_count, task, pc, auto, orphans, terminated,
                   locals, delivered, prev, cur, same, after_reset, applied, target_group>>

\* /reset_monitor (main.py 478-485).
reset_monitor ==
    /\ ~terminated
    /\ last_player_count' = None
    /\ last_player_list' = <<>>
    /\ last_status' = None
    /\ reset_pending' = TRUE
    /\ op' = "reset"
    /\ UNCHANGED <<task, pc, auto, orphans, terminated, locals, delivered,
                   prev, cur, same, after_reset, applied, target_group>>

\* /set_group (main.py 489-499): a group id that is not all digits after
\* strip() is refused; else it becomes the target group.
set_target_group(group_id) ==
    /\ ~terminated
    /\ target_group' = IF isdigit(strip(group_id)) THEN Some(strip(group_id))
                       ELSE target_group
    /\ op' = "set_group"
    /\ UNCHANGED <<monitor, task, pc, auto, orphans, terminated, locals,
                   delivered, history, applied>>

\* The outcomes of the fetch of a manual query: a failure, and the snapshots
\* of a full server.
QueryResults ==
    {None} \cup {d \in FetchResults \ {None} : Val(d).online = MaxOnline}

\* Mutation of get_server_status: the query runs the change detection, as a
\* poll does.
get_server_status_Checks(server_data) ==
    LET r == check_server_changes(last_player_count, last_player_list,
                                  last_status, server_data)
    IN /\ ~terminated
       /\ last_player_count' = r.count
       /\ last_player_list' = r.list
       /\ last_status' = r.status
       /\ op' = "query"
       /\ UNCHANGED <<task, pc, auto, orphans, terminated, locals, delivered,
                      history, applied, target_group>>

\* The query command (main.py 466-476): get_minecraft_server_info fetches and
\* formats (281-296), the quote is fetched and the text is the reply.
get_server_status(server_data) ==
    /\ ~terminated
    /\ op' = "query"
    /\ UNCHANGED <<monitor, task, pc, auto, orphans, terminated, locals,
                   delivered, history, applied, target_group>>

\* Mutation of Runnable: the task goes on after cancel() was called.
Runnable_IgnoresCancel == TaskLive

\* The polling task can be resumed at its await with a result: it was not
\* cancelled.  (A cancelled task is resumed with CancelledError.)
Runnable == task = "running"

\* The cancelled task is resumed: CancelledError is raised at its await,
\* which except Exception (main.py 437) does not catch, and the task is done.
TaskCancelled ==
    /\ task = "cancelling"
    /\ task' = "done"
    /\ pc' = "done"
    /\ op' = "other"
    /\ UNCHANGED <<monitor, auto, orphans, terminated, locals, delivered,
                   history, applied, target_group>>

\* await asyncio.sleep(self.check_interval) returns (main.py 403).
Wake ==
    /\ Runnable
    /\ pc = "sleep"
    /\ pc' = "fetch"
    /\ op' = "other"
    /\ UNCHANGED <<monitor, task, auto, orphans, terminated, locals,
                   delivered, history, applied, target_group>>

\* Mutation of PollFailed: a failed poll forgets the stored snapshot.
PollFailed_ClearsState ==
    /\ last_player_count' = None
    /\ last_player_list' = <<>>
    /\ last_status' = None
    /\ pc' = "sleep"
    /\ op' = "fetch_failed"
    /\ UNCHANGED <<task, auto, orphans, terminated, locals, delivered,
                   history, applied, target_group>>

\* The poll fails: server_data is None and the loop continues (main.py 408-410).
PollFailed ==
    /\ pc' = "sleep"
    /\ op' = "fetch_failed"
    /\ UNCHANGED <<monitor, task, auto, orphans, terminated, locals,
                   delivered, history, applied, target_group>>

\* The poll succeeds: check_server_changes(server_data) (main.py 413), then
\* the task goes on to send (415-432) or to the next iteration (433-435).
PollChecked(server_data) ==
    LET r == check_server_changes(last_player_count, last_player_list,
                                  last_status, server_data)
    IN /\ last_player_count' = r.count
       /\ last_player_list' = r.list
       /\ last_status' = r.status
       /\ should_send' = r.send
       /\ change_message' = r.msg
       /\ delivered' = IF r.send THEN FALSE ELSE delivered
       /\ pc' = IF r.send THEN "hitokoto" ELSE "sleep"
       /\ prev' = [count |-> last_player_count, list |-> last_player_list]
       /\ cur' = Some(Summary(Val(server_data)))
       /\ same' = (~reset_pending /\ cur = Some(Summary(Val(server_data))))
       /\ after_reset' = reset_pending
       /\ reset_pending' = FALSE
       /\ op' = "check"
       /\ UNCHANGED <<task, auto, orphans, terminated, applied, target_group>>

\* await self._fetch_server_data() returns server_data (main.py 406) and the
\* iteration runs to its next await.
Poll(server_data) ==
    /\ Runnable
    /\ pc = "fetch"
    /\ IF IsNone(server_data) THEN PollFailed ELSE PollChecked(server_data)

\* await self.get_hitokoto() returns (main.py 424); the final message is built.
Hitokoto ==
    /\ Runnable
    /\ pc = "hitokoto"
    /\ pc' = "notify"
    /\ op' = "other"
    /\ UNCHANGED <<monitor, task, auto, orphans, terminated, locals,
                   delivered, history, applied, target_group>>

\* await self.notify_subscribers(final_message) returns sent (main.py 432):
\* True when the message was sent, False otherwise and always without a
\* target group (359-396).  The loop does not read it.
Notify(sent) ==
    /\ Runnable
    /\ pc = "notify"
    /\ sent => ~IsNone(target_group)
    /\ pc' = "sleep"
    /\ delivered' = sent
    /\ op' = "other"
    /\ UNCHANGED <<monitor, task, auto, orphans, terminated, locals, history,
                   applied, target_group>>

\* Mutation of StepRaises: the exception ends the task.
StepRaises_EndsTask ==
    /\ Runnable
    /\ pc \in {"sleep", "fetch", "hitokoto", "notify"}
    /\ task' = "done"
    /\ pc' = "done"
    /\ op' = "other"
    /\ UNCHANGED <<monitor, auto, orphans, terminated, locals, delivered,
                   history, applied, target_group>>

\* An exception that is no CancelledError leaves the await the task is
\* suspended at, or the code that follows it, inside the try block: it is
\* logged and the task sleeps 5 seconds (main.py 437-440).
StepRaises ==
    /\ Runnable
    /\ pc \in {"sleep", "fetch", "hitokoto", "notify"}
    /\ pc' = "errsleep"
    /\ op' = "other"
    /\ UNCHANGED <<monitor, task, auto, orphans, terminated, locals,
                   delivered, history, applied, target_group>>

\* await asyncio.sleep(5) returns (main.py 440) and the loop starts its next
\* iteration.
ErrWake ==
    /\ Runnable
    /\ pc = "errsleep"
    /\ pc' = "sleep"
    /\ op' = "recovered"
    /\ UNCHANGED <<monitor, task, auto, orphans, terminated, locals,
                   delivered, history, applied, target_group>>

Next ==
    \/ delayed_auto_start
    \/ start_server_monitor_task
    \/ stop_server_monitor_task
    \/ terminate
    \/ reset_monitor
    \/ \E group_id \in GroupIds : set_target_group(group_id)
    \/ \E server_data \in QueryResults : get_server_status(server_data)
    \/ TaskCancelled
    \/ Wake
    \/ \E server_data \in FetchResults : Poll(server_data)
    \/ Hitokoto
    \/ \E sent \in BOOLEAN : Notify(sent)
    \/ StepRaises
    \/ ErrWake

Spec == Init /\ [][Next]_vars

\* The event loop resumes a task whose cancellation was requested.
FairSpec == Spec /\ WF_vars(TaskCancelled)

\* ----------------------------------------- the conversion of the counts
\* The polling task of a fresh plugin is about to fetch; the document the
\* request will return is fn_in.
InitFetch ==
    /\ last_player_count = None
    /\ last_player_list = <<>>
    /\ last_status = None
    /\ task = "running"
    /\ pc = "fetch"
    /\ target_group = Some("123")
    /\ auto = FALSE
    /\ orphans = 0
    /\ terminated = FALSE
    /\ should_send = FALSE
    /\ change_message = <<>>
    /\ delivered = TRUE
    /\ prev = [count |-> None, list |-> <<>>]
    /\ cur = None
    /\ same = FALSE
    /\ reset_pending = FALSE
    /\ after_reset = FALSE
    /\ op = "other"
    /\ fn_in \in {Some(resp) : resp \in WideResponses}
    /\ fn_out = None

\* _fetch_server_data builds its result from the document (main.py 112-227).
FetchDocument ==
    /\ IsNone(fn_out)
    /\ fn_out' = Some(fetch_server_data(Val(fn_in)))
    /\ UNCHANGED <<monitor, task, pc, auto, orphans, terminated, locals,
                   delivered, history, op, fn_in, target_group>>

\* The polling task goes on with that result (main.py 406-435).
PollFetched ==
    /\ ~IsNone(fn_out)
    /\ op = "other"
    /\ Poll(Val(fn_out))

NextFetch == FetchDocument \/ PollFetched

SpecFetch == InitFetch /\ [][NextFetch]_vars

\* ------------------------------------------- the rendering of long lists
\* The polling task has stored the snapshot of an empty or of a crowded
\* server and is about to fetch; the snapshot it will get is fn_in.
InitFormat ==
    /\ \E ns \in {<<>>, SubSeq(Roster, 1, MaxNames)} :
          /\ last_player_count = Some(Len(ns))
          /\ last_player_list = ns
          /\ prev = [count |-> None, list |-> <<>>]
          /\ cur = Some([online |-> Len(ns), names |-> ns,
                         status |-> "online"])
    /\ last_status = Some("online")
    /\ task = "running"
    /\ pc = "fetch"
    /\ target_group = Some("123")
    /\ auto = FALSE
    /\ orphans = 0
    /\ terminated = FALSE
    /\ should_send = FALSE
    /\ change_message = <<>>
    /\ delivered = TRUE
    /\ same = FALSE
    /\ reset_pending = FALSE
    /\ after_reset = FALSE
    /\ op = "other"
    /\ fn_in \in {Some(d) : d \in BigSnapshots}
    /\ fn_out = None

\* _format_server_info renders the snapshot, for the reply to a query
\* (main.py 295) or for the notification (main.py 421).
FormatSnapshot ==
    /\ IsNone(fn_out)
    /\ fn_out' = Some(format_server_info(Val(fn_in)))
    /\ UNCHANGED <<monitor, task, pc, auto, orphans, terminated, locals,
                   delivered, history, op, fn_in, target_group>>

\* The polling task compares the snapshot with the stored one
\* (main.py 406-435).
PollSnapshot ==
    /\ op = "other"
    /\ Poll(Val(fn_in))

NextFormat == FormatSnapshot \/ PollSnapshot

SpecFormat == InitFormat /\ [][NextFormat]_vars

\* ----------------------------------------------------------------- claims
\* The last check_server_changes call was a comparison: it had a snapshot
\* and a stored count to compare it with.
Compared == ~IsNone(cur) /\ ~IsNone(prev.count)

\* The name differences of that comparison.
Joined == SeqToSet(Val(cur).names) \ SeqToSet(prev.list)
Left == SeqToSet(prev.list) \ SeqToSet(Val(cur).names)

\* The lines of the message it returned.
Lines == {change_message[i] : i \in 1..Len(change_message)}

InitKinds == {"init", "init_online"}
CountKinds == {"count_joined", "count_left"}

\* The signed delta a count-only line states.
Delta(line) == IF line.kind = "count_joined" THEN line.n ELSE -line.n

\* C1: in every comparison with an online snapshot in which some current
\* name was not stored before, a "joined" line naming exactly those names is
\* returned, whatever the counts are.
C1_JoinedReported ==
    (Compared /\ Val(cur).status = "online" /\ Joined # {})
    => (should_send
        /\ \E line \in Lines : line.kind = "joined" /\ line.names = Joined)

\* C2: in every comparison with an online snapshot in which some stored name
\* is no longer current, a "left" line naming exactly those names is
\* returned, whatever the counts are.
C2_LeftReported ==
    (Compared /\ Val(cur).status = "online" /\ Left # {})
    => (should_send
        /\ \E line \in Lines : line.kind = "left" /\ line.names = Left)

\* C3: in every comparison in which no name joined and no name left but the
\* count differs from the stored one, exactly one count-only line is
\* returned, its signed delta is the current count minus the stored count,
\* and should_send is True.
C3_CountOnlyChange ==
    (Compared /\ Joined = {} /\ Left = {}
        /\ Val(cur).online # Val(prev.count))
    => (/\ should_send
        /\ Len(change_message) = 1
        /\ change_message[1].kind \in CountKinds
        /\ Delta(change_message[1]) = Val(cur).online - Val(prev.count))

\* A comparison of two snapshots without names whose count fell.
C3_Witness ==
    /\ op = "check"
    /\ Compared
    /\ prev.list = <<>>
    /\ Val(cur).names = <<>>
    /\ Val(cur).online < Val(prev.count)
    /\ change_message[1].kind = "count_left"

\* C4: a count-only line is returned only by a comparison in which no name
\* joined and no name left.
C4_CountOnlyWithoutNames ==
    (Compared /\ \E line \in Lines : line.kind \in CountKinds)
    => (Joined = {} /\ Left = {})

C6_Idempotent ==
    same
    => (/\ ~should_send
        /\ op = "check" =>
              /\ last_player_count = prev.count
              /\ last_player_list = prev.list
              /\ last_status = Some(Val(cur).status))

\* Two calls in a row with an equal snapshot that has players.
C6_Witness ==
    /\ op = "check"
    /\ same
    /\ Val(cur).online > 0
    /\ Val(cur).names # <<>>

\* C7: after every call with a snapshot the stored count, names and status
\* are the snapshot's.
C7_StateIsSnapshot ==
    op = "check"
    => (/\ last_player_count = Some(Val(cur).online)
        /\ last_player_list = Val(cur).names
        /\ last_status = Some(Val(cur).status))

\* A comparison that returned no change and replaced the stored names.
C7_Witness ==
    /\ op = "check"
    /\ Compared
    /\ ~should_send
    /\ last_player_list # prev.list

\* C8: a comparison with a snapshot whose status is not "online" returns no
\* change.
C8_SilentWhenNotOnline ==
    (Compared /\ Val(cur).status # "online") => ~should_send

\* C9: a poll whose fetch returns None leaves the stored state as it was and
\* takes the task back to its sleep with nothing to send, and
\* check_server_changes(None) returns False and the state it was given.
C9_FailedPoll ==
    [][/\ op' = "fetch_failed"
          => /\ UNCHANGED monitor
             /\ UNCHANGED locals
             /\ pc' = "sleep"
       /\ LET r == check_server_changes(last_player_count, last_player_list,
                                        last_status, None)
          IN /\ ~r.send
             /\ <<r.count, r.list, r.status>> = monitor]_vars

\* A failed poll after a snapshot with names was stored.
C9_Witness ==
    /\ op = "fetch_failed"
    /\ ~IsNone(last_player_count)
    /\ last_player_list # <<>>

\* C10: from reset_monitor until the next call with a snapshot the stored
\* count is None and the stored list empty, and that call finds no stored
\* count and returns the "monitoring started" line only.
C10_ResetThenInit ==
    /\ reset_pending => (IsNone(last_player_count) /\ last_player_list = <<>>)
    /\ after_reset
       => /\ IsNone(prev.count)
          /\ prev.list = <<>>
          /\ Len(change_message) = 1
          /\ change_message[1].kind \in InitKinds

\* The first call after a reset, with a snapshot that names players.
C10_Witness ==
    /\ op = "check"
    /\ after_reset
    /\ Val(cur).names # <<>>


\* C11: a manual query leaves the stored count, names and status as they
\* were, whatever its fetch returns.
C11_QueryKeepsState == [][op' = "query" => UNCHANGED monitor]_vars

\* A query answered between two polls of a running task that has stored a
\* snapshot.
C11_Witness ==
    /\ op = "query"
    /\ task = "running"
    /\ pc = "fetch"
    /\ ~IsNone(last_player_count)

\* C12: the polling task stops running only by a cancellation; after an
\* exception in an iteration and after a failed fetch it is running and goes
\* on to its next iteration.
C12_LoopSurvivesErrors ==
    [][/\ (task = "running" /\ task' # "running") => task' = "cancelling"
       /\ (task # "done" /\ task' = "done") => task = "cancelling"
       /\ (pc = "errsleep" /\ pc' # "errsleep" /\ task' = "running")
              => pc' = "sleep"
       /\ op' = "fetch_failed" => (task' = "running" /\ pc' = "sleep")]_vars

\* The task is back at its interval sleep after an exception.
C12_Witness == op = "recovered" /\ task = "running" /\ pc = "sleep"

\* C13: at most one polling task is live at any time.
C13_OneTask == LiveTasks <= 1

\* A start command handled while the cancelled task has not finished, and
\* the delayed start still to come.
C13_Witness == op = "start" /\ task = "cancelling" /\ auto

\* C14: the online count and the max count of every snapshot
\* _fetch_server_data returns, and the stored count, are not negative.
C14_CountsNotNegative ==
    /\ (~IsNone(fn_out) /\ ~IsNone(Val(fn_out)))
           => (Val(Val(fn_out)).online >= 0 /\ Val(Val(fn_out)).max >= 0)
    /\ ~IsNone(last_player_count) => Val(last_player_count) >= 0

\* C15: the rendering of a snapshot with players online shows all n
\* extracted names when n <= 10, and the first 10 in order with the
\* indicator n - 10 when n > 10.
C15_SnapshotRendering ==
    (~IsNone(fn_out) /\ ~IsNone(Val(fn_in)) /\ Val(Val(fn_in)).online > 0)
    => LET names == extract_player_names(Val(Val(fn_in)).players)
           n == Len(names)
           text == Val(fn_out)
       IN /\ n <= 10 => (text.shown = names /\ text.more = 0)
          /\ n > 10 => (/\ Len(text.shown) = 10
                        /\ \A i \in 1..10 : text.shown[i] = names[i]
                        /\ text.more = n - 10)

\* The rendering of a snapshot with MaxNames names.
C15_Witness ==
    /\ ~IsNone(fn_out)
    /\ Val(fn_out).kind = "list"
    /\ Len(Val(fn_out).shown) = 10
    /\ Val(fn_out).more = MaxNames - 10

\* C16: a joined or left line shows at most 10 names.  (The line has no
\* place for a "+N more" indicator: main.py 333 and 340 join every name.)
C16_ChangeRendering ==
    \A line \in Lines :
        line.kind \in {"joined", "left"} => Cardinality(line.names) <= 10

\* C17: when a comparison reported a change whose message was not sent, and
\* the next call has the same snapshot, that call reports a change.
C17_TransitionNotLost ==
    [][(/\ op' = "check"
        /\ same'
        /\ should_send
        /\ ~delivered
        /\ Compared)
       => should_send']_vars

\* C18: from the cancel call on, the task is resumed only to finish: it
\* does not move to another await, no check_server_changes call and no
\* notification happen, and it finishes.
C18_CancelStops ==
    /\ [][task = "cancelling"
          => (/\ task' \in {"cancelling", "done"}
              /\ pc' = pc \/ task' = "done"
              /\ op' \notin {"check", "fetch_failed", "recovered"}
              /\ delivered' = delivered)]_vars
    /\ (task = "cancelling") ~> (task = "done")

\* The task was cancelled while it was about to send a message.
C18_Witness == task = "cancelling" /\ pc = "notify" /\ ~delivered

\* C19: after terminate there is no polling task that goes on polling.
C19_NoTaskAfterTerminate == terminated => task # "running"

\* C20: when start_server_monitor has returned, a polling task without a
\* pending cancellation exists.
C20_StartLeavesTask == op = "start" => task = "running"


\* C21: the stored count, names and status change only in a
\* check_server_changes call with a snapshot and in reset_monitor; and a
\* later call without a reset in between, by whichever task, is compared
\* with the snapshot of the call before it and returns no "monitoring
\* started" text.
C21_StateChangesOnlyByCheckAndReset ==
    [][/\ monitor' # monitor => op' \in {"check", "reset"}
       /\ (op' = "check" /\ ~IsNone(cur) /\ ~reset_pending)
              => (/\ prev'.count = Some(Val(cur).online)
                  /\ prev'.list = Val(cur).names
                  /\ \A i \in 1..Len(change_message') :
                         change_message'[i].kind \notin InitKinds)]_vars

\* The group was set after the task was stopped and had finished, with a
\* snapshot stored and its message not sent.
C21_Witness ==
    /\ op = "set_group"
    /\ task = "done"
    /\ ~IsNone(last_player_count)
    /\ ~delivered
    /\ ~IsNone(target_group)

====
